---- MODULE Spec2Model ----
(***************************************************************************)
(* Toggl -> Google Calendar exporter, version 1.4.03.                      *)
(*                                                                         *)
(* The model follows the 1.4.03 script: the two-tier checkpoint store      *)
(* (CacheService + Script Properties), the resume index (PROGRESS_KEY),    *)
(* the script lock, the batch driver processTimeEntriesBatch with its four *)
(* entry points, the matcher eventExistsAndUpdate, the writer              *)
(* recordActivityLog and the sweepers.                                     *)
(*                                                                         *)
(* Time is in seconds since the epoch (the unit of the watermark); the     *)
(* millisecond budgets keep the script's millisecond values.               *)
(***************************************************************************)
EXTENDS Integers, Sequences, FiniteSets, TLC

VARIABLES
    cache,        \* CacheService entry under CONFIG.CACHE_KEY
    props,        \* Script Properties entry under CONFIG.CACHE_KEY
    progress,     \* Script Properties entry under PROGRESS_KEY: <<>> or <<n>>
    calendar,     \* the calendar's events, in the store's enumeration order
    lock,         \* the script lock: <<>> when free, <<p>> when p holds it
    triggers,     \* one-shot 'watch' triggers created and not yet fired
    pc,           \* position of each invocation
    mode,         \* entry point of each invocation
    lastModify,   \* local: watermark candidate
    timeEntries,  \* local: the fetched list
    idx,          \* local: loop variable i
    outcome,      \* how the invocation left processTimeEntriesBatch
    obs,          \* the last call under observation: what it met and did
    batch0,       \* history of the batch under observation (SpecResume)
    sweep         \* state of the running sweeper (none when idle)

vars == <<cache, props, progress, calendar, lock, triggers, pc, mode,
          lastModify, timeEntries, idx, outcome, obs,
          batch0, sweep>>

(***************************************************************************)
(* Program constants (CONFIG).                                             *)
(***************************************************************************)
RETRY_COUNT == 5
AUTOMATIC_TIMEOUT_INTERVAL == 240000
MANUAL_COMPLETE_TIMEOUT_INTERVAL == 330000
MANUAL_TIMEOUT_MODE_INTERVAL == 60000

DAY == 24 * 60 * 60
\* 30 * 24 * 60 * 60 * 1000 ms, in seconds
COLD_START_WINDOW == 30 * DAY
\* lastModify - 24 * 60 * 60
OVERLAP == DAY
\* new Date(y, m - 3, d): three calendar months, taken as 90 days
SEARCH_WINDOW == 90 * DAY

(***************************************************************************)
(* Bounds of the model.                                                    *)
(***************************************************************************)
NumProcs == 2
MaxRecords == 2
MaxEvents == 3
MaxTriggers == 1

Procs == 1..NumProcs

\* The clock reading "now" of the modelled period.
Now == 40 * DAY

(***************************************************************************)
(* Timestamp strings.  A timestamp of a Toggl record is a string; the      *)
(* model keeps the instant it denotes and the textual form it is written   *)
(* in.  Date.prototype.toISOString always writes the form "msZ"            *)
(* (YYYY-MM-DDTHH:mm:ss.sssZ); Toggl also writes "Z" (no milliseconds) and *)
(* "offset" (+00:00).  "bad" does not parse; "null" is an absent value.    *)
(***************************************************************************)
TextForms == {"msZ", "Z", "offset"}

Stamp(t, f) == [inst |-> t, form |-> f]
NullStamp == [inst |-> 0 - 1, form |-> "null"]
BadStamp == [inst |-> 0 - 1, form |-> "bad"]

\* new Date(str).getTime() is NaN for a string that does not parse
IsNaNDate(s) == s.form \notin TextForms
\* Math.floor(new Date(str).getTime() / 1000), for a string that parses
UnixSeconds(s) == s.inst
\* date.toISOString()
toISOString(t) == Stamp(t, "msZ")

(***************************************************************************)
(* Titles.  An event title is  <text> [" : " <project>] " ID:" <id>.       *)
(* text is the description part, proj the project part ("" when there is   *)
(* none) and tok the trailing token after "ID:": <<n>> when it is the      *)
(* decimal number n, <<>> when the title has no trailing ID:<digits>       *)
(* (for instance "ID:undefined", or a title the user wrote).               *)
(***************************************************************************)
Title(text, proj, tok) == [text |-> text, proj |-> proj, tok |-> tok]

\* [(description || '名称なし'), project_name].filter(Boolean).join(" : ") + " ID:" + id
\* id is <<n>> for a numeric id and <<>> for an absent one ("ID:undefined")
BuildTitle(description, project_name, id) ==
    Title(IF description = "" THEN "NoName" ELSE description, project_name, id)

\* faulty variant: a title without a trailing ID:<digits> yields the key 0
ExtractId_always(title) == IF title.tok = <<>> THEN <<0>> ELSE title.tok

\* title.match(/ID:(\d+)$/): the captured digits, <<>> when there is no match
ExtractId(title) == title.tok

Event(title, s, e, u) == [title |-> title, start |-> s, end |-> e, updated |-> u]

(***************************************************************************)
(* Checkpoint store.  An entry is absent, a payload {"timestamp": n}, or a *)
(* string that JSON.parse rejects or that has no numeric timestamp.        *)
(***************************************************************************)
AbsentEntry == [kind |-> "absent", ts |-> 0 - 1]
CorruptEntry == [kind |-> "corrupt", ts |-> 0 - 1]
\* JSON that parses to a value without a numeric timestamp
NoTimestampEntry == [kind |-> "noTimestamp", ts |-> 0 - 1]
\* JSON.stringify({ timestamp: timestamp })
Payload(timestamp) == [kind |-> "ok", ts |-> timestamp]

\* if (cachedData) { parsedData = JSON.parse(cachedData);
\*   if (parsedData && typeof parsedData.timestamp === 'number') ...
ValidPayload(entry) == entry.kind = "ok"

\* faulty variant: the durable payload is returned and the cache left as it was
getLastModifyDatetime_noRepopulate(c, d) ==
    IF ValidPayload(c) THEN [ret |-> c.ts, cache |-> c]
    ELSE IF ValidPayload(d) THEN [ret |-> d.ts, cache |-> c]
    ELSE [ret |-> 0 - 1, cache |-> c]

\* faulty variant: the cache is repopulated with a payload of its own making
getLastModifyDatetime_repopulatesNow(c, d) ==
    IF ValidPayload(c) THEN [ret |-> c.ts, cache |-> c]
    ELSE IF ValidPayload(d) THEN [ret |-> d.ts, cache |-> [kind |-> "ok", ts |-> d.ts + 1]]
    ELSE [ret |-> 0 - 1, cache |-> c]

\* getLastModifyDatetime(): the value returned and the cache entry it leaves
getLastModifyDatetime(c, d) ==
    IF ValidPayload(c) THEN [ret |-> c.ts, cache |-> c]
    ELSE IF ValidPayload(d) THEN [ret |-> d.ts, cache |-> d]
    ELSE [ret |-> 0 - 1, cache |-> c]

\* putLastModifyDatetime(timestamp): the entry both tiers hold afterwards
putLastModifyDatetime(timestamp) == Payload(timestamp)

\* parseInt(props.getProperty(PROGRESS_KEY)) || 0
ReadProgress(pr) == IF pr = <<>> THEN 0 ELSE pr[1]

(***************************************************************************)
(* retry(fn, retries, delay).  fails is the number of leading invocations  *)
(* of fn that throw: fn is invoked until one returns or retries            *)
(* invocations have thrown, and then the last error is rethrown.           *)
(***************************************************************************)
retryThrows(fails, retries) == fails >= retries
retryCalls(fails, retries) == IF fails >= retries THEN retries ELSE fails + 1

(***************************************************************************)
(* Toggl records.  id and pid are <<>> when absent, <<n>> otherwise.       *)
(***************************************************************************)
Record(id, start, stop, description, pid) ==
    [id |-> id, start |-> start, stop |-> stop, description |-> description, pid |-> pid]

\* GET /me/time_entries?start_date=..&end_date=..: the entries that start
\* in the range, in the order the account holds them
getTimeEntriesRange(entries, startDate, endDate) ==
    SelectSeq(entries, LAMBDA r: r.start.inst >= startDate /\ r.start.inst <= endDate)

\* getProjectData(wid, pid).name || '' ; answer is the API's answer:
\* "ok" (200 with the project), "non200", or "throw" (fetch fails on every retry)
ProjectNameOf(pid) == "Proj"
projectName(rec, answer) ==
    IF rec.pid = <<>> THEN "" ELSE IF answer = "ok" THEN ProjectNameOf(rec.pid) ELSE ""
projectThrows(rec, answer) == rec.pid # <<>> /\ answer = "throw"

(***************************************************************************)
(* Calendar.  getEvents(from, to) returns the events that overlap the      *)
(* range, in enumeration order; with { search: "ID:<id>" } only those      *)
(* whose title contains that text.                                         *)
(***************************************************************************)
InRange(e, from, to) == e.start <= to /\ e.end >= from

RECURSIVE IsDigitPrefix(_, _)
\* the decimal digits of a are a prefix of the decimal digits of b
IsDigitPrefix(a, b) == (a = b) \/ (b >= 10 /\ IsDigitPrefix(a, b \div 10))

\* the title contains the text "ID:<id>"
ContainsIdText(title, id) == title.tok # <<>> /\ IsDigitPrefix(id, title.tok[1])

\* indexes of the events getEvents(from, to) returns, in order
EventsInRange(cal, from, to) ==
    {k \in 1..Len(cal) : InRange(cal[k], from, to)}

SetMin(S) == CHOOSE x \in S : \A y \in S : x <= y
SetMax(S) == CHOOSE x \in S : \A y \in S : x >= y

(***************************************************************************)
(* notifyError.  Version 1.4.03 calls notifyError(e, record_id) but the    *)
(* script defines no such function (1.3.00 and 1.4.00 did): the call       *)
(* raises a ReferenceError in place of sending the mail.                   *)
(***************************************************************************)
notifyErrorDefined == FALSE

\* The try block of processTimeEntriesBatch (lines 514-616) has a finally
\* clause and no catch clause, and the entry points call it bare: an error
\* that leaves the block leaves the invocation, and the early return of a
\* null fetch only writes to the log.
runLevelCatch == FALSE

\* the notifier is handed the way the run ended
reportedToNotifier(how) ==
    runLevelCatch /\ notifyErrorDefined /\ how \in {"error", "nullFetch"}

(***************************************************************************)
(* Event Matcher: eventExistsAndUpdate(record_id, newRecord).              *)
(* answer is the project API's answer, upd how the retried                 *)
(* setTitle/setTime block ends: "ok", "titleFails" (setTitle throws in     *)
(* every attempt) or "timeFails" (setTitle went through, setTime throws in *)
(* every attempt).                                                         *)
(* ret is "true", "false" or "throw" (an error leaves the function).       *)
(***************************************************************************)
\* faulty variant: the first event the text search returns is taken
MatchingEvent_bySearchOnly(cal, id) ==
    LET found == {k \in EventsInRange(cal, Now - SEARCH_WINDOW, Now) :
                      ContainsIdText(cal[k].title, id[1])}
    IN  IF found = {} THEN 0 ELSE SetMin(found)

\* index of matchingEvent in the calendar, 0 when there is none
MatchingEvent(cal, id) ==
    LET found == {k \in EventsInRange(cal, Now - SEARCH_WINDOW, Now) :
                      ContainsIdText(cal[k].title, id[1])}
        exact == {k \in found : ExtractId(cal[k].title) = id}
    IN  IF exact = {} THEN 0 ELSE SetMin(exact)

\* faulty variant: a changed title alone is not seen as a reason to update
eventTitleNeedsUpdate_never(ev, updatedTitle) == FALSE

\* matchingEvent.getTitle() !== updatedTitle
eventTitleNeedsUpdate(ev, updatedTitle) == ev.title # updatedTitle

eventTimeNeedsUpdate(ev, rec) ==
    (toISOString(ev.start) # rec.start) \/ (toISOString(ev.end) # rec.stop)

eventExistsAndUpdate(cal, rec, answer, upd) ==
    LET k == IF rec.id = <<>> THEN 0 ELSE MatchingEvent(cal, rec.id)
        updatedTitle == BuildTitle(rec.description, projectName(rec, answer), rec.id)
        needs == eventTitleNeedsUpdate(cal[k], updatedTitle)
                     \/ eventTimeNeedsUpdate(cal[k], rec)
        caught == IF notifyErrorDefined THEN "false" ELSE "throw"
    IN  IF k = 0
        THEN [cal |-> cal, ret |-> "false", writeCalls |-> FALSE, faulty |-> FALSE]
        ELSE IF projectThrows(rec, answer)
        THEN [cal |-> cal, ret |-> "throw", writeCalls |-> FALSE, faulty |-> TRUE]
        ELSE IF ~needs
        THEN [cal |-> cal, ret |-> "true", writeCalls |-> FALSE,
              faulty |-> (rec.pid # <<>> /\ answer # "ok")]
        ELSE IF upd = "ok"
        THEN [cal |-> [cal EXCEPT ![k] =
                          Event(updatedTitle, rec.start.inst, rec.stop.inst, Now)],
              ret |-> "true", writeCalls |-> TRUE,
              faulty |-> (rec.pid # <<>> /\ answer # "ok")]
        ELSE IF upd = "timeFails"
        THEN [cal |-> [cal EXCEPT ![k] = Event(updatedTitle, @.start, @.end, Now)],
              ret |-> caught, writeCalls |-> TRUE, faulty |-> TRUE]
        ELSE [cal |-> cal, ret |-> caught, writeCalls |-> TRUE, faulty |-> TRUE]

(***************************************************************************)
(* Event Writer: recordActivityLog(title, started_at, ended_at).           *)
(* create is "ok" or "fail" (getCalendarById returns null, or createEvent  *)
(* throws).                                                                *)
(***************************************************************************)
recordActivityLog(cal, title, started_at, ended_at, create) ==
    IF create = "ok" /\ ~IsNaNDate(started_at) /\ ~IsNaNDate(ended_at)
    THEN [cal |-> Append(cal, Event(title, started_at.inst, ended_at.inst, Now)),
          threw |-> FALSE]
    ELSE [cal |-> cal, threw |-> TRUE]

(***************************************************************************)
(* The body of the per-record try block of processTimeEntriesBatch and its *)
(* catch.  escaped: an error left the catch block (the run is aborted).    *)
(***************************************************************************)
Answers == {"ok", "non200", "throw"}
Updates == {"ok", "titleFails", "timeFails"}
Creates == {"ok", "fail"}
\* one record makes one project lookup: in the matcher when an event matches,
\* before the create when none does
\* the answers that one record of the calendar cal can meet: no project
\* lookup without a project id, an update only for a matched event, a create
\* only when none matched
EnvsFor(cal, rec) ==
    LET matched == rec.id # <<>> /\ MatchingEvent(cal, rec.id) # 0
    IN  [proj : IF rec.pid = <<>> THEN {"ok"} ELSE Answers,
         upd : IF matched THEN Updates ELSE {"ok"},
         create : IF matched /\ notifyErrorDefined = FALSE THEN {"ok"} ELSE Creates]
CleanEnv == [proj |-> "ok", upd |-> "ok", create |-> "ok"]

processRecord(cal, rec, env) ==
    LET m == eventExistsAndUpdate(cal, rec, env.proj, env.upd)
        activity_log == BuildTitle(rec.description, projectName(rec, env.proj), rec.id)
        w == recordActivityLog(m.cal, activity_log, rec.start, rec.stop, env.create)
        base == [cal |-> m.cal, ret |-> m.ret, writeCalls |-> m.writeCalls,
                 created |-> FALSE, caught |-> FALSE, escaped |-> FALSE,
                 faulty |-> m.faulty]
        thrown == [base EXCEPT !.caught = TRUE, !.escaped = ~notifyErrorDefined,
                               !.faulty = TRUE]
    IN  IF m.ret = "true" THEN base
        ELSE IF m.ret = "throw" THEN thrown
        ELSE IF projectThrows(rec, env.proj) THEN thrown
        ELSE IF w.threw THEN thrown
        ELSE [base EXCEPT !.cal = w.cal, !.created = TRUE,
                          !.faulty = m.faulty \/ (rec.pid # <<>> /\ env.proj # "ok")]

\* faulty variant: no record is skipped
skipRecord_never(rec) == FALSE

\* if (!record.stop) continue;  if (isNaN(stop_time) || isNaN(start_time)) continue;
skipRecord(rec) ==
    rec.stop.form = "null" \/ IsNaNDate(rec.stop) \/ IsNaNDate(rec.start)

(***************************************************************************)
(* The data the model draws from.                                          *)
(***************************************************************************)
TRecent == Now - 2 * DAY
TOlder == Now - 20 * DAY
HOUR == 60 * 60

RecordUniverse ==
    { Record(<<1>>, Stamp(TRecent, "Z"), Stamp(TRecent + HOUR, "Z"), "A", <<>>),
      Record(<<2>>, Stamp(TOlder, "msZ"), Stamp(TOlder + HOUR, "msZ"), "B", <<>>),
      Record(<<3>>, Stamp(TRecent, "Z"), NullStamp, "C", <<>>),
      Record(<<4>>, Stamp(TRecent, "bad"), Stamp(TRecent + HOUR, "Z"), "D", <<>>),
      Record(<<5>>, Stamp(TRecent, "Z"), BadStamp, "E", <<>>) }

RECURSIVE SeqsUpTo(_, _)
\* the sequences of at most n elements of S
SeqsUpTo(S, n) ==
    IF n = 0 THEN {<<>>}
    ELSE LET shorter == SeqsUpTo(S, n - 1)
         IN  shorter \cup {Append(q, x) : q \in {r \in shorter : Len(r) = n - 1}, x \in S}

\* an account holds one entry per id
DistinctIds(q) == \A i, j \in 1..Len(q) : i # j => q[i].id # q[j].id

RemoteLists == {q \in SeqsUpTo(RecordUniverse, MaxRecords) : DistinctIds(q)}

\* elapsed milliseconds the clock can show when the loop compares them with the budget
ElapsedSamples == {30000, 100000, 300000, 400000}

\* A completed run that met no later stop time persists the watermark it read
\* plus one, so the watermark creeps up run after run.  Runs are modelled
\* while it is less than MaxCreep above 0 or above a stop time + 1.
MaxCreep == 1
StopTimes == {UnixSeconds(r.stop) : r \in {x \in RecordUniverse : ~IsNaNDate(x.stop)}}
WatermarkBases == {0} \cup {t + 1 : t \in StopTimes}
WithinCreep(w) == (w = 0 - 1) \/ (\E b \in WatermarkBases : w >= b /\ w - b < MaxCreep)

(***************************************************************************)
(* Entry points and modes.                                                 *)
(***************************************************************************)
Modes == {"watch", "timeout", "complete", "initial"}
\* watch: (false, true, false); timeout: (true, false, false);
\* complete: (true, true, false); initial: (true, false, true)
isManual(m) == m # "watch"
autoResume(m) == m \in {"watch", "complete"}
forceInitial(m) == m = "initial"

MAX_EXECUTION_TIME(m) ==
    IF isManual(m)
    THEN (IF autoResume(m) THEN MANUAL_COMPLETE_TIMEOUT_INTERVAL
                           ELSE MANUAL_TIMEOUT_MODE_INTERVAL)
    ELSE AUTOMATIC_TIMEOUT_INTERVAL

NoObs == [kind |-> "none", upToDate |-> FALSE, ret |-> "none",
          writeCalls |-> FALSE, created |-> FALSE, faulty |-> FALSE,
          caught |-> FALSE, escaped |-> FALSE, env |-> CleanEnv]
\* phase "off": no batch is observed, the account's entries change freely.
\* Otherwise the account holds the entries batch0.remote throughout:
\* "fresh" before the first run, "running" from the fetch of a run that
\* starts at index 0 (whose list, calendar and watermark are kept), "over"
\* once a run has completed.  window is <<startDate, now>> of the last run
\* that reached the fetch, in seconds; by is the mode of the run that created
\* the latest follow-up trigger; persistedIn is the window of the run that
\* last persisted a resume index.
NoBatch == [phase |-> "off", remote |-> <<>>, list |-> <<>>, cal |-> <<>>,
            prior |-> 0 - 1, next |-> 0, clean |-> TRUE, window |-> <<>>,
            by |-> "none", persistedIn |-> <<>>]

\* sweep: the sweeper that is running (kind), the attempt of its retry, the
\* events getEvents returned to this attempt, the number of them the forEach
\* has visited, what the last visit saw and did, how the call ended, and the
\* calendar the call started from.
NoVisit == [key |-> <<>>, looked |-> FALSE, code |-> 0, deleteCalled |-> FALSE]
NoSweep == [kind |-> "none", attempt |-> 0, events |-> <<>>, pos |-> 0,
            last |-> NoVisit, status |-> "idle", cal0 |-> <<>>]

Init ==
    /\ cache = AbsentEntry
    /\ props = AbsentEntry
    /\ progress = <<>>
    /\ calendar = <<>>
    /\ lock = <<>>
    /\ triggers = 0
    /\ pc = [p \in Procs |-> "idle"]
    /\ mode = [p \in Procs |-> "watch"]
    /\ lastModify = [p \in Procs |-> 0 - 1]
    /\ timeEntries = [p \in Procs |-> <<>>]
    /\ idx = [p \in Procs |-> 0]
    /\ outcome = [p \in Procs |-> "none"]
    /\ obs = NoObs
    /\ batch0 = NoBatch
    /\ sweep = NoSweep

locals == <<lastModify, timeEntries, idx>>
store == <<cache, props, progress>>

(***************************************************************************)
(* Entry points.                                                           *)
(***************************************************************************)
Enter(p, m) ==
    /\ pc[p] = "idle"
    /\ batch0.phase # "over"
    /\ pc' = [pc EXCEPT ![p] = "getLock"]
    /\ mode' = [mode EXCEPT ![p] = m]
    /\ UNCHANGED <<cache, props, calendar, lock, locals, outcome, obs, sweep>>

\* the installed time-based trigger calls watch()
watch(p) ==
    /\ Enter(p, "watch")
    /\ UNCHANGED <<progress, triggers, batch0>>

\* a trigger created by ScriptApp.newTrigger('watch').timeBased().after(1000) fires
TriggerFires(p) ==
    /\ triggers > 0
    /\ triggers' = triggers - 1
    /\ Enter(p, "watch")
    /\ batch0' = [batch0 EXCEPT !.by = "none"]
    /\ UNCHANGED progress

manualProcessTimeEntriesTimeout(p) ==
    /\ Enter(p, "timeout")
    /\ UNCHANGED <<progress, triggers, batch0>>

manualProcessTimeEntriesComplete(p) ==
    /\ Enter(p, "complete")
    /\ UNCHANGED <<progress, triggers, batch0>>

\* deleteProperty(PROGRESS_KEY), then processTimeEntriesBatch(true, false, true)
manualProcessTimeEntriesInitial(p) ==
    /\ Enter(p, "initial")
    /\ progress' = <<>>
    /\ UNCHANGED <<triggers, batch0>>

(***************************************************************************)
(* The script lock.                                                        *)
(***************************************************************************)
\* faulty variant: waitLock returns although another invocation holds the lock
lockFree_ignoresHolder(l) == TRUE

\* lock.waitLock(30000) returns once no other invocation holds the lock
lockFree(l) == l = <<>>

\* faulty variant: the release follows the loop in place of a finally block: an
\* error or the early return of a null fetch skips it
releaseLock_notInFinally(l, p, how) ==
    IF l = <<p>> /\ how \notin {"error", "nullFetch"} THEN <<>> ELSE l

\* finally { if (lock) lock.releaseLock(); } on every way out of the try block
releaseLock(l, p, how) == IF l = <<p>> THEN <<>> ELSE l

\* getLock(): the lock is acquired
getLock(p) ==
    /\ pc[p] = "getLock"
    /\ lockFree(lock)
    /\ WithinCreep(getLastModifyDatetime(cache, props).ret)
    /\ lock' = <<p>>
    /\ pc' = [pc EXCEPT ![p] = "read"]
    /\ UNCHANGED <<store, calendar, triggers, mode, locals, outcome, obs,
                   batch0, sweep>>

\* getLock(): waitLock gives up after 30 s and the error leaves the invocation
LockTimeout(p) ==
    /\ pc[p] = "getLock"
    /\ lock # <<>>
    /\ pc' = [pc EXCEPT ![p] = "done"]
    /\ mode' = [mode EXCEPT ![p] = "watch"]
    /\ outcome' = [outcome EXCEPT ![p] = "nolock"]
    /\ UNCHANGED <<store, calendar, lock, triggers, locals, obs, batch0, sweep>>

(***************************************************************************)
(* processTimeEntriesBatch, lines 515-549: budget, resume index,           *)
(* watermark, window, fetch.                                               *)
(***************************************************************************)
\* faulty variant: the window starts at the watermark itself
windowStart_noOverlap(lm) == IF lm = 0 - 1 THEN Now - COLD_START_WINDOW ELSE lm

\* startDate of the fetch window, in seconds
windowStart(lm) == IF lm = 0 - 1 THEN Now - COLD_START_WINDOW ELSE lm - OVERLAP

\* attempts of the fetch that fail before one answers: none, all but the
\* last, every one
FetchFails == {0, RETRY_COUNT - 1, RETRY_COUNT}

ReadCheckpointAndFetch(p) ==
    /\ pc[p] = "read"
    /\ \E fails \in FetchFails, body \in {"array", "notArray"},
          entries \in (IF batch0.phase = "off" THEN RemoteLists ELSE {batch0.remote}) :
         LET li == ReadProgress(progress)
             g == getLastModifyDatetime(cache, props)
             lm == IF forceInitial(mode[p]) THEN 0 - 1 ELSE g.ret
             window == <<windowStart(lm), Now>>
             list == getTimeEntriesRange(entries, window[1], window[2])
             seen == IF batch0.phase = "off" THEN batch0
                     ELSE [batch0 EXCEPT !.window = window]
         IN  /\ cache' = IF forceInitial(mode[p]) THEN cache ELSE g.cache
             /\ IF retryThrows(fails, RETRY_COUNT)
                THEN /\ pc' = [pc EXCEPT ![p] = "finally"]
                     /\ outcome' = [outcome EXCEPT ![p] = "error"]
                     /\ batch0' = seen
                     /\ UNCHANGED locals
                ELSE IF body = "notArray"
                THEN /\ pc' = [pc EXCEPT ![p] = "finally"]
                     /\ outcome' = [outcome EXCEPT ![p] = "nullFetch"]
                     /\ batch0' = seen
                     /\ UNCHANGED locals
                ELSE /\ pc' = [pc EXCEPT ![p] = "loop"]
                     /\ lastModify' = [lastModify EXCEPT ![p] = lm]
                     /\ timeEntries' = [timeEntries EXCEPT ![p] = list]
                     /\ idx' = [idx EXCEPT ![p] = li]
                     /\ batch0' =
                           IF batch0.phase = "off" THEN batch0
                           ELSE IF li = 0
                           THEN [seen EXCEPT !.phase = "running", !.list = list,
                                             !.cal = calendar, !.prior = lm,
                                             !.next = 0, !.clean = TRUE]
                           ELSE [seen EXCEPT !.clean = @ /\ list = batch0.list]
                     /\ UNCHANGED outcome
    /\ UNCHANGED <<props, progress, calendar, lock, triggers, mode,
                   obs, sweep>>

(***************************************************************************)
(* processTimeEntriesBatch, lines 551-606: one iteration of the loop.      *)
(***************************************************************************)
\* a record with the canonical title and the record's times exists already
UpToDate(cal, rec) ==
    \E k \in EventsInRange(cal, Now - SEARCH_WINDOW, Now) :
        /\ cal[k].title = BuildTitle(rec.description, projectName(rec, "ok"), rec.id)
        /\ cal[k].start = rec.start.inst
        /\ cal[k].end = rec.stop.inst

\* faulty variant: every timed-out run creates a trigger
schedulesFollowUp_always(m) == TRUE

\* if (!isManual || (isManual && autoResume)) ScriptApp.newTrigger('watch')...
schedulesFollowUp(m) == ~isManual(m) \/ (isManual(m) /\ autoResume(m))

\* faulty variant: the candidate is the stop time of the record handled last
raiseLastModify_toLast(lm, stop_time) == stop_time

\* if (stop_time > lastModify) { lastModify = stop_time; }
raiseLastModify(lm, stop_time) == IF stop_time > lm THEN stop_time ELSE lm

\* faulty variant: the index of the record just processed is persisted
resumeIndexAfter_same(i) == i

\* props.setProperty(PROGRESS_KEY, i + 1)
resumeIndexAfter(i) == i + 1

\* control leaves the try block (return or throw); the locals are dead
Leave(p, how) ==
    /\ pc' = [pc EXCEPT ![p] = "finally"]
    /\ outcome' = [outcome EXCEPT ![p] = how]
    /\ lastModify' = [lastModify EXCEPT ![p] = 0 - 1]
    /\ timeEntries' = [timeEntries EXCEPT ![p] = <<>>]
    /\ idx' = [idx EXCEPT ![p] = 0]

SkipRecord(p) ==
    /\ pc[p] = "loop"
    /\ idx[p] < Len(timeEntries[p])
    /\ skipRecord(timeEntries[p][idx[p] + 1])
    /\ idx' = [idx EXCEPT ![p] = @ + 1]
    /\ UNCHANGED <<store, calendar, lock, triggers, pc, mode, lastModify,
                   timeEntries, outcome, obs, batch0, sweep>>

ProcessRecord(p) ==
    /\ pc[p] = "loop"
    /\ idx[p] < Len(timeEntries[p])
    /\ ~skipRecord(timeEntries[p][idx[p] + 1])
    /\ \E env \in EnvsFor(calendar, timeEntries[p][idx[p] + 1]), e \in ElapsedSamples :
         LET record == timeEntries[p][idx[p] + 1]
             r == processRecord(calendar, record, env)
             stop_time == UnixSeconds(record.stop)
             timedOut == e > MAX_EXECUTION_TIME(mode[p])
             schedules == schedulesFollowUp(mode[p])
         IN  /\ Len(r.cal) <= MaxEvents
             /\ calendar' = r.cal
             /\ batch0' = IF batch0.phase = "off" THEN batch0
                          ELSE [batch0 EXCEPT !.clean = @ /\ ~r.faulty,
                                              !.next = IF ~r.escaped /\ timedOut
                                                       THEN idx[p] + 1 ELSE @,
                                              !.by = IF ~r.escaped /\ timedOut
                                                        /\ schedules
                                                     THEN mode[p] ELSE @,
                                              !.persistedIn =
                                                     IF ~r.escaped /\ timedOut
                                                     THEN batch0.window ELSE @]
             /\ IF r.escaped
                THEN /\ Leave(p, "error")
                     /\ UNCHANGED <<progress, triggers>>
                ELSE IF timedOut
                THEN /\ progress' = <<resumeIndexAfter(idx[p])>>
                     /\ IF schedules
                        THEN triggers < MaxTriggers /\ triggers' = triggers + 1
                        ELSE UNCHANGED triggers
                     /\ Leave(p, "timeout")
                ELSE /\ lastModify' = [lastModify EXCEPT ![p] =
                                           raiseLastModify(@, stop_time)]
                     /\ idx' = [idx EXCEPT ![p] = @ + 1]
                     /\ UNCHANGED <<progress, triggers, pc, outcome, timeEntries>>
    /\ UNCHANGED <<cache, props, lock, mode, obs, sweep>>

\* faulty variant: the completed run leaves the resume index in place
progressAfterCompletion_kept(pr) == pr

\* props.deleteProperty(PROGRESS_KEY)
progressAfterCompletion(pr) == <<>>

\* lines 608-610: the loop is exhausted
Complete(p) ==
    /\ pc[p] = "loop"
    /\ idx[p] >= Len(timeEntries[p])
    /\ cache' = putLastModifyDatetime(lastModify[p] + 1)
    /\ props' = putLastModifyDatetime(lastModify[p] + 1)
    /\ progress' = progressAfterCompletion(progress)
    /\ Leave(p, "completed")
    /\ UNCHANGED <<calendar, lock, triggers, mode, obs, batch0, sweep>>

\* lines 611-616: the finally block
Finally(p) ==
    /\ pc[p] = "finally"
    /\ lock' = releaseLock(lock, p, outcome[p])
    /\ pc' = [pc EXCEPT ![p] = "done"]
    /\ mode' = [mode EXCEPT ![p] = "watch"]
    /\ batch0' = IF batch0.phase # "off" /\ outcome[p] = "completed"
                 THEN [batch0 EXCEPT !.phase = "over"] ELSE batch0
    /\ UNCHANGED <<store, calendar, triggers, locals, outcome, obs, sweep>>

\* the invocation is over
Return(p) ==
    /\ pc[p] = "done"
    /\ pc' = [pc EXCEPT ![p] = "idle"]
    /\ outcome' = [outcome EXCEPT ![p] = "none"]
    /\ UNCHANGED <<store, calendar, lock, triggers, mode, locals, obs, batch0, sweep>>

(***************************************************************************)
(* The environment.                                                        *)
(***************************************************************************)
\* the cache entry outlives its time to live (MAX_CACHE_AGE)
CacheExpire ==
    /\ cache # AbsentEntry
    /\ cache' = AbsentEntry
    /\ UNCHANGED <<props, progress, calendar, lock, triggers, pc, mode, locals,
                   outcome, obs, batch0, sweep>>

\* faulty variant: the durable entry and the resume index are removed as well
clearScriptCache_everything ==
    /\ cache' = AbsentEntry
    /\ props' = AbsentEntry
    /\ progress' = <<>>
    /\ UNCHANGED <<calendar, lock, triggers, pc, mode, locals,
                   outcome, obs, batch0, sweep>>

\* clearScriptCache(): cache.remove(CONFIG.CACHE_KEY)
clearScriptCache ==
    /\ cache' = AbsentEntry
    /\ UNCHANGED <<props, progress, calendar, lock, triggers, pc, mode, locals,
                   outcome, obs, batch0, sweep>>

Next ==
    \/ \E p \in Procs :
          \/ watch(p)
          \/ TriggerFires(p)
          \/ manualProcessTimeEntriesTimeout(p)
          \/ manualProcessTimeEntriesComplete(p)
          \/ manualProcessTimeEntriesInitial(p)
          \/ getLock(p)
          \/ LockTimeout(p)
          \/ ReadCheckpointAndFetch(p)
          \/ SkipRecord(p)
          \/ ProcessRecord(p)
          \/ Complete(p)
          \/ Finally(p)
          \/ Return(p)
    \/ CacheExpire
    \/ clearScriptCache

Spec == Init /\ [][Next]_vars

(***************************************************************************)
(* Properties of the batch driver under Spec.                              *)
(***************************************************************************)
\* the watermark a read of the durable tier yields
WatermarkOf(entry) == IF ValidPayload(entry) THEN entry.ts ELSE 0 - 1

\* p is between lock acquisition and lock release
InCS(p) == pc[p] \in {"read", "loop", "finally"}

\* the step by which p's run completes / times out
Completes(p) == pc[p] = "loop" /\ pc'[p] = "finally" /\ outcome'[p] = "completed"
TimesOut(p) == pc[p] = "loop" /\ pc'[p] = "finally" /\ outcome'[p] = "timeout"

\* C2: the watermark a completed run persists is never lower than the
\* watermark persisted before it, in every mode.
C2_WatermarkMonotonic ==
    [][\A p \in Procs : Completes(p) => WatermarkOf(props') >= WatermarkOf(props)]_vars

\* C4: when the budget is found exceeded after record index i, the run
\* persists resume index i + 1 and leaves; both tiers of the watermark are
\* as they were.
C4_TimeoutPersistsIndexOnly ==
    [][\A p \in Procs :
          TimesOut(p) => /\ progress' = <<idx[p] + 1>>
                         /\ cache' = cache
                         /\ props' = props]_vars

\* C4 witness: a run has timed out after its second record and left index 2,
\* with a watermark of an earlier run still in place.
C4_Witness ==
    \E p \in Procs : /\ pc[p] = "finally"
                      /\ outcome[p] = "timeout"
                      /\ progress = <<2>>
                      /\ ValidPayload(props)

\* C9: an invocation that is between lock acquisition and lock release holds
\* the lock, so no two invocations are there at once.
C9_MutualExclusion ==
    /\ \A p \in Procs : InCS(p) => lock = <<p>>
    /\ \A p, q \in Procs : p # q => ~(InCS(p) /\ InCS(q))

\* C9 witness: one invocation processes records while another waits for the lock.
C9_Witness ==
    \E p, q \in Procs : p # q /\ pc[p] = "loop" /\ idx[p] > 0 /\ pc[q] = "getLock"

\* C10: an invocation that has ended (or has not acquired the lock) does not
\* hold the lock, however the run left the try block.
C10_LockReleasedAtEnd ==
    \A p \in Procs : pc[p] \in {"idle", "getLock", "done"} => lock # <<p>>

\* C10 witness: a run that threw has ended, and the lock is free.
C10_Witness ==
    \E p \in Procs : pc[p] = "done" /\ outcome[p] = "error" /\ lock = <<>>

\* a step p takes while it does not hold the lock and another invocation
\* does: its entry (the wait for the lock can then time out) or the abort
\* after the wait timed out
StepWithoutLock(p) ==
    /\ lock # <<>>
    /\ lock # <<p>>
    /\ \/ pc[p] = "idle" /\ pc'[p] = "getLock"
       \/ pc[p] = "getLock" /\ pc'[p] = "done"

\* C11: an invocation whose lock acquisition fails has no side effect: from
\* its entry to its abort it changes neither the watermark (either tier) nor
\* the resume index nor the calendar, in every mode.
C11_LockFailureNoSideEffect ==
    [][\A p \in Procs :
          StepWithoutLock(p) => /\ cache' = cache
                                /\ props' = props
                                /\ progress' = progress
                                /\ calendar' = calendar]_vars

\* C12: an error raised while one record is processed does not abort the
\* batch: a run leaves the loop only by completing or by timing out with a
\* checkpoint, never by an error.
C12_RecordErrorDoesNotAbort ==
    [][\A p \in Procs :
          (pc[p] = "loop" /\ pc'[p] # "loop") =>
              outcome'[p] \in {"completed", "timeout"}]_vars

\* C17: a run that times out in watch or manual complete mode creates
\* exactly one follow-up trigger; one that times out in manual timeout mode
\* creates none.
C17_FollowUpOnTimeout ==
    [][\A p \in Procs :
          TimesOut(p) =>
              /\ mode[p] \in {"watch", "complete"} => triggers' = triggers + 1
              /\ mode[p] = "timeout" => triggers' = triggers]_vars

\* C17 witness: a manual complete run has timed out and its one trigger is
\* pending.
C17_Witness ==
    \E p \in Procs : /\ pc[p] = "finally"
                      /\ outcome[p] = "timeout"
                      /\ mode[p] = "complete"
                      /\ triggers = 1

\* C18: a run in initial mode starts from no watermark (the 30-day window)
\* and iterates from index 0, whatever was persisted and however other
\* invocations interleave with it.
C18_InitialIgnoresCheckpoint ==
    [][\A p \in Procs :
          (pc[p] = "read" /\ pc'[p] = "loop" /\ mode[p] = "initial") =>
              /\ lastModify'[p] = 0 - 1
              /\ idx'[p] = 0]_vars

\* the watermark a run would read from the two tiers
StoredWatermark(c, d) == IF ValidPayload(c) THEN c.ts ELSE WatermarkOf(d)

\* the step in which the fetch of run p fails or answers null, and the steps
\* of the run after it
FetchAborts(p) == pc[p] = "read" /\ pc'[p] = "finally"
AfterAbort(p) ==
    /\ pc[p] \in {"finally", "done"}
    /\ pc'[p] # pc[p]
    /\ outcome[p] \in {"error", "nullFetch"}

\* C21: a run whose range fetch fails in every retry, or answers a body that
\* is not a list, ends without entering the loop; in that step and in the
\* rest of the run no calendar event, neither tier's watermark as a read
\* yields it, nor the resume index changes.
C21_FailedFetchChangesNothing ==
    [][\A p \in Procs :
          /\ FetchAborts(p) => outcome'[p] \in {"error", "nullFetch"}
          /\ (FetchAborts(p) \/ AfterAbort(p)) =>
                /\ calendar' = calendar
                /\ progress' = progress
                /\ props' = props
                /\ StoredWatermark(cache', props') = StoredWatermark(cache, props)]_vars

\* a run whose fetch answered null has ended; there were events, a watermark
\* in both tiers and a resume index to change
C21_Witness ==
    \E p \in Procs :
        /\ pc[p] = "done"
        /\ outcome[p] = "nullFetch"
        /\ calendar # <<>>
        /\ progress # <<>>
        /\ ValidPayload(props)
        /\ cache = props

\* C22: when a run has ended on a failed fetch or a null fetch result, the
\* failure has been reported through the notifier and the run no longer
\* holds the lock.
C22_FatalErrorReported ==
    \A p \in Procs :
        (pc[p] = "done" /\ outcome[p] \in {"error", "nullFetch"}) =>
            (reportedToNotifier(outcome[p]) /\ lock # <<p>>)

\* the record is in progress (no stop) or one of its timestamps does not parse
InProgressOrUnparseable(rec) ==
    \/ rec.stop.form = "null"
    \/ rec.stop.form \notin TextForms
    \/ rec.start.form \notin TextForms

\* the step run p makes in the loop
LoopStep(p) == pc[p] = "loop" /\ (idx'[p] # idx[p] \/ pc'[p] # "loop")

\* C28: the loop step over a record whose stop is absent or whose start or
\* stop does not parse changes no calendar event (no search result is acted
\* on, no update, no create), leaves the watermark candidate of the run as it
\* was, and moves the run on to the next record.
C28_SkippedRecordLeftAlone ==
    [][\A p \in Procs :
          (LoopStep(p) /\ idx[p] < Len(timeEntries[p])
              /\ InProgressOrUnparseable(timeEntries[p][idx[p] + 1])) =>
                /\ calendar' = calendar
                /\ lastModify'[p] = lastModify[p]
                /\ pc'[p] = "loop"
                /\ idx'[p] = idx[p] + 1
                /\ timeEntries'[p] = timeEntries[p]
                /\ UNCHANGED <<store, triggers>>]_vars

\* a run has skipped the first of two records and is at the second; the
\* skipped one has an unparseable start and a stop that parses
C28_Witness ==
    \E p \in Procs :
        /\ pc[p] = "loop"
        /\ idx[p] = 1
        /\ Len(timeEntries[p]) = 2
        /\ IsNaNDate(timeEntries[p][1].start)
        /\ ~IsNaNDate(timeEntries[p][1].stop)
        /\ lastModify[p] < UnixSeconds(timeEntries[p][1].stop)
        /\ calendar = <<>>

\* the step in which a follow-up trigger fires and starts a leg as run p
ContinuationStarts(p) ==
    triggers' = triggers - 1 /\ pc[p] = "idle" /\ pc'[p] = "getLock"

\* C29: the budget is 4 min for a scheduled leg, 1 min for a manual timeout
\* leg and 5m30s for a manual complete leg, and a continuation leg that a
\* follow-up trigger starts runs under the budget of the run that scheduled
\* it: 5m30s when that run was in manual complete mode.
C29_ContinuationKeepsBudget ==
    [][/\ MAX_EXECUTION_TIME("watch") = 4 * 60 * 1000
       /\ MAX_EXECUTION_TIME("timeout") = 60 * 1000
       /\ MAX_EXECUTION_TIME("complete") = 5 * 60 * 1000 + 30 * 1000
       /\ \A p \in Procs :
             (ContinuationStarts(p) /\ batch0.by \in Modes) =>
                 MAX_EXECUTION_TIME(mode'[p]) = MAX_EXECUTION_TIME(batch0.by)]_vars

\* C38: the loop step over a record that is not skipped, whether its match,
\* update or create went through or raised an error, either finds the budget
\* exceeded or goes on to the next record with the watermark candidate
\* raised to the record's stop time.
C38_CandidateRaisedDespiteError ==
    [][\A p \in Procs :
          (LoopStep(p) /\ idx[p] < Len(timeEntries[p])
              /\ ~InProgressOrUnparseable(timeEntries[p][idx[p] + 1])) =>
                \/ TimesOut(p)
                \/ /\ pc'[p] = "loop"
                   /\ idx'[p] = idx[p] + 1
                   /\ lastModify'[p] >= UnixSeconds(timeEntries[p][idx[p] + 1].stop)
                   /\ lastModify'[p] >= lastModify[p]]_vars

\* C25: the persisted resume index is given a value only by the step in
\* which a run times out, and that value is not zero; the step in which a run
\* completes leaves it absent, so that it reads as 0.
C25_ResumeIndexOnlyMidFlight ==
    [][/\ (progress' # progress /\ progress' # <<>>) =>
             \E p \in Procs : TimesOut(p) /\ ReadProgress(progress') > 0
       /\ \A p \in Procs :
             Completes(p) => (progress' = <<>> /\ ReadProgress(progress') = 0)]_vars

\* the step in which the cache entry is removed (by clearScriptCache, or by
\* the cache service when the entry's time to live is over)
CacheCleared == cache # AbsentEntry /\ cache' = AbsentEntry

\* C36: the removal of the cache entry leaves the durable entry and the
\* resume index as they were, and when the durable tier holds a valid
\* payload a read returns the same watermark after the removal as before it.
C36_ClearRemovesCacheOnly ==
    [][CacheCleared =>
          /\ props' = props
          /\ progress' = progress
          /\ ValidPayload(props) =>
                /\ getLastModifyDatetime(cache', props').ret
                       = getLastModifyDatetime(cache, props).ret
                /\ getLastModifyDatetime(cache', props').ret # 0 - 1]_vars

\* the cache entry is gone while the durable tier holds a watermark and a
\* resume index is persisted
C36_Witness ==
    /\ cache = AbsentEntry
    /\ ValidPayload(props)
    /\ progress # <<>>

\* C37: whenever the cache tier holds a valid payload it is the durable
\* tier's payload; the step in which a run completes, which is the one that
\* calls putLastModifyDatetime(w), leaves w in both tiers, and a read
\* then returns w.
C37_CacheAgreesWithDurable ==
    /\ [](ValidPayload(cache) => cache = props)
    /\ [][\A p \in Procs :
             Completes(p) =>
                LET w == lastModify[p] + 1
                IN  /\ cache' = Payload(w)
                    /\ props' = Payload(w)
                    /\ getLastModifyDatetime(cache', props').ret = w]_vars

\* a run has read a watermark that an earlier run wrote, and the cache holds
\* the durable payload
C37_Witness ==
    \E p \in Procs :
        /\ pc[p] = "loop"
        /\ mode[p] # "initial"
        /\ lastModify[p] > 0
        /\ ValidPayload(cache)
        /\ cache = props

(***************************************************************************)
(* A batch that is interrupted and resumed.  The account holds the same    *)
(* entries throughout; batch0 keeps the list, the calendar and the         *)
(* watermark of the run that started the batch at index 0, the index the   *)
(* last timeout persisted, and whether every call so far went through.     *)
(***************************************************************************)
InitResume ==
    /\ cache = AbsentEntry
    /\ props = AbsentEntry
    /\ progress = <<>>
    /\ calendar = <<>>
    /\ lock = <<>>
    /\ triggers = 0
    /\ pc = [p \in Procs |-> "idle"]
    /\ mode = [p \in Procs |-> "watch"]
    /\ lastModify = [p \in Procs |-> 0 - 1]
    /\ timeEntries = [p \in Procs |-> <<>>]
    /\ idx = [p \in Procs |-> 0]
    /\ outcome = [p \in Procs |-> "none"]
    /\ obs = NoObs
    /\ \E q \in RemoteLists : batch0 = [NoBatch EXCEPT !.phase = "fresh", !.remote = q]
    /\ sweep = NoSweep

SpecResume == InitResume /\ [][Next]_vars

\* the step in which run p computes its window and calls the fetch
Fetches(p) == pc[p] = "read" /\ pc'[p] # "read"

\* C16 as stated: the fetch window of a run is [now - 30 days, now] when
\* the read of the checkpoint returns -1, and [watermark - 1 day, now]
\* otherwise.
C16_WindowFromCheckpoint ==
    [][\A p \in Procs :
          Fetches(p) =>
             LET read == getLastModifyDatetime(cache, props).ret
             IN  batch0'.window = IF read = 0 - 1
                                  THEN <<Now - 30 * DAY, Now>>
                                  ELSE <<read - DAY, Now>>]_vars

\* C16 amended: the fetch window of a run is [now - 30 days, now] when the
\* run is in initial mode or the read of the checkpoint returns -1, and
\* [watermark - 1 day, now] otherwise.
C16_WindowFromCheckpointUnlessInitial ==
    [][\A p \in Procs :
          Fetches(p) =>
             LET read == getLastModifyDatetime(cache, props).ret
             IN  batch0'.window = IF mode[p] = "initial" \/ read = 0 - 1
                                  THEN <<Now - 30 * DAY, Now>>
                                  ELSE <<read - DAY, Now>>]_vars

\* a run outside initial mode has fetched from one day before a watermark
C16_Witness ==
    \E p \in Procs :
        /\ pc[p] = "loop"
        /\ mode[p] # "initial"
        /\ lastModify[p] > 0
        /\ batch0.window = <<lastModify[p] - DAY, Now>>

\* a run has completed a batch that a timeout had interrupted, and the resume
\* index that timeout persisted is gone
C25_Witness ==
    \E p \in Procs :
        /\ pc[p] = "finally"
        /\ outcome[p] = "completed"
        /\ batch0.next > 0
        /\ progress = <<>>

\* C33: a leg of the batch starts iterating at the index the last timed-out
\* leg persisted (0 for the first leg); a leg that times out persists an
\* index strictly greater than the one it started from and at most the
\* length N of the list; a leg that starts at N iterates nothing and
\* completes.  Hence at most N legs of a batch time out.
C33_TimedOutLegAdvances ==
    [][\A p \in Procs :
          /\ (pc[p] = "read" /\ pc'[p] = "loop") =>
                (idx'[p] = batch0'.next /\ idx'[p] = ReadProgress(progress))
          /\ (pc[p] = "loop" /\ pc'[p] = "loop") => idx'[p] >= idx[p]
          /\ pc[p] = "loop" => idx[p] >= batch0.next
          /\ TimesOut(p) =>
                /\ ReadProgress(progress') > batch0.next
                /\ ReadProgress(progress') > ReadProgress(progress)
                /\ ReadProgress(progress') <= Len(timeEntries[p])
                /\ batch0'.next = ReadProgress(progress')
          /\ (LoopStep(p) /\ idx[p] >= Len(timeEntries[p])) => Completes(p)]_vars

\* the second leg of a batch of two records has timed out as well: the index
\* went from 0 to 1 to 2
C33_Witness ==
    \E p \in Procs :
        /\ pc[p] = "finally"
        /\ outcome[p] = "timeout"
        /\ Len(batch0.list) = 2
        /\ batch0.next = 2
        /\ progress = <<2>>
        /\ Len(calendar) = 2

\* C34: a run that starts iterating at a non-zero resume index has computed
\* the fetch window of the run that persisted that index.
C34_ResumeIndexOverSameWindow ==
    [][\A p \in Procs :
          (pc[p] = "read" /\ pc'[p] = "loop" /\ idx'[p] > 0) =>
              batch0'.window = batch0.persistedIn]_vars

\* the stop times of the records of list after position from that are not
\* skipped
StopsIterated(list, from) ==
    {UnixSeconds(list[i].stop) :
        i \in {j \in (from + 1)..Len(list) : ~skipRecord(list[j])}}

\* C35: a run that completes persists, in both tiers, max(W, S) + 1, where W
\* is the stored watermark (-1 when absent, and in initial mode) and S the
\* stop times of the non-skipped records from the leg's start index on; with
\* S empty that is W + 1, and 0 for a cold start, and the checkpoint is then
\* no longer read as absent.
C35_CompletedWatermark ==
    [][\A p \in Procs :
          Completes(p) =>
             LET W == IF forceInitial(mode[p]) THEN 0 - 1
                      ELSE StoredWatermark(cache, props)
                 S == StopsIterated(timeEntries[p], batch0.next)
             IN  /\ props' = Payload(SetMax({W} \cup S) + 1)
                 /\ cache' = props'
                 /\ S = {} => WatermarkOf(props') = W + 1
                 /\ getLastModifyDatetime(cache', props').ret # 0 - 1]_vars

\* a cold-start run over an empty list has completed and persisted 0
C35_Witness ==
    \E p \in Procs :
        /\ pc[p] = "finally"
        /\ outcome[p] = "completed"
        /\ batch0.list = <<>>
        /\ batch0.prior = 0 - 1
        /\ props = Payload(0)
        /\ cache = Payload(0)

RECURSIVE RunAllCalendar(_, _, _)
\* the calendar after the loop has processed list[i..] with every call going through
RunAllCalendar(cal, list, i) ==
    IF i > Len(list) THEN cal
    ELSE RunAllCalendar(IF skipRecord(list[i]) THEN cal
                        ELSE processRecord(cal, list[i], CleanEnv).cal, list, i + 1)

RECURSIVE RunAllModify(_, _, _)
\* lastModify after the loop has processed list[i..]
RunAllModify(lm, list, i) ==
    IF i > Len(list) THEN lm
    ELSE RunAllModify(IF ~skipRecord(list[i]) /\ UnixSeconds(list[i].stop) > lm
                      THEN UnixSeconds(list[i].stop) ELSE lm, list, i + 1)

\* the stop times of the batch's accepted records that exceed the watermark
\* the batch started from
ExceedingStops ==
    {UnixSeconds(batch0.list[i].stop) :
        i \in {j \in 1..Len(batch0.list) :
                  /\ ~skipRecord(batch0.list[j])
                  /\ UnixSeconds(batch0.list[j].stop) > batch0.prior}}

\* p completes a leg that resumed the batch at the index a timeout persisted,
\* over the same list, every call of the batch having gone through
CompletesResumed(p) ==
    /\ Completes(p)
    /\ batch0.phase = "running"
    /\ batch0.next > 0
    /\ batch0.clean
    /\ timeEntries[p] = batch0.list

\* C1: after a timeout that persisted resume index i, the following run
\* starts iterating at index i; and a batch that was resumed over the same
\* list ends with the calendar, the watermark and the resume index that one
\* uninterrupted run over the whole list ends with.
C1_ResumeEqualsUninterrupted ==
    [][\A p \in Procs :
          /\ (pc[p] = "read" /\ pc'[p] = "loop") => idx'[p] = ReadProgress(progress)
          /\ CompletesResumed(p) =>
                /\ calendar' = RunAllCalendar(batch0.cal, batch0.list, 1)
                /\ props' = Payload(RunAllModify(batch0.prior, batch0.list, 1) + 1)
                /\ progress' = <<>>]_vars

\* C3: the watermark a completed batch persists is the greatest stop time
\* above the prior watermark among all its accepted records, plus one,
\* records of legs before a timeout included.
C3_CompletedWatermarkIsMaxStopPlusOne ==
    [][\A p \in Procs :
          (Completes(p) /\ batch0.phase = "running" /\ timeEntries[p] = batch0.list
              /\ ExceedingStops # {}) =>
              props' = Payload(SetMax(ExceedingStops) + 1)]_vars

\* (the resumed run does start at the persisted index, and the calendar and
\* the resume index of a resumed batch do end as in the uninterrupted run;
\* the watermark is what differs)
ResumedCalendarAndIndex ==
    [][\A p \in Procs :
          /\ (pc[p] = "read" /\ pc'[p] = "loop") => idx'[p] = ReadProgress(progress)
          /\ CompletesResumed(p) =>
                /\ calendar' = RunAllCalendar(batch0.cal, batch0.list, 1)
                /\ progress' = <<>>]_vars

\* (a batch that completes in its first leg does persist the greatest stop
\* time above the prior watermark, plus one)
UninterruptedWatermark ==
    [][\A p \in Procs :
          (Completes(p) /\ batch0.phase = "running" /\ batch0.next = 0
              /\ timeEntries[p] = batch0.list /\ ExceedingStops # {}) =>
              props' = Payload(SetMax(ExceedingStops) + 1)]_vars

(***************************************************************************)
(* The sweepers: deleteRemovedEntriesShort, deleteRemovedEntriesManual,    *)
(* removeDuplicateEvents.  None of them takes the script lock.  Each is    *)
(* retry(() => { getEvents(pastDate, now).forEach(...) }): an error in a   *)
(* visit ends the attempt, and the next attempt reads the events again.    *)
(***************************************************************************)
\* now - 1 day
SHORT_WINDOW == DAY
\* new Date(y, m - 1, d): one calendar month, taken as 30 days
MANUAL_WINDOW == 30 * DAY
\* new Date(y, m - 3, d): three calendar months, taken as 90 days
DUPLICATE_WINDOW == 90 * DAY

sweepWindow(kind) ==
    IF kind = "short" THEN SHORT_WINDOW
    ELSE IF kind = "manual" THEN MANUAL_WINDOW ELSE DUPLICATE_WINDOW

\* calendar.getEvents(pastDate, now), in enumeration order
getEvents(cal, from, to) == SelectSeq(cal, LAMBDA e : InRange(e, from, to))

\* event.deleteEvent()
deleteEvent(cal, ev) == SelectSeq(cal, LAMBDA e : e # ev)

\* The HTTP status codes the by-id lookup answers attempt after attempt:
\* n answers 500, then 200 or 404.
ResponseScripts ==
    {[a \in 1..RETRY_COUNT |-> IF a <= n THEN 500 ELSE final] :
        n \in {0, 1, RETRY_COUNT - 1, RETRY_COUNT}, final \in {200, 404}}

RECURSIVE lookupFrom(_, _)
\* retry(() => { 200: return true; 404: return false; else throw }), from
\* attempt a on; code is the status of the last response
lookupFrom(script, a) ==
    IF script[a] = 200 THEN [ret |-> "true", code |-> 200]
    ELSE IF script[a] = 404 THEN [ret |-> "false", code |-> 404]
    ELSE IF a = RETRY_COUNT THEN [ret |-> "throw", code |-> script[a]]
    ELSE lookupFrom(script, a + 1)

\* faulty variant: every status other than 200 is taken as "the entry is gone"
checkIfTogglEntryExists_non200IsGone(script) ==
    IF script[1] = 200 THEN [ret |-> "true", code |-> 200]
    ELSE [ret |-> "false", code |-> script[1]]

checkIfTogglEntryExists(script) == lookupFrom(script, 1)

\* faulty variant: an event is deleted when a later one has its key
inEventMap_laterOne(events, k) ==
    \E j \in (k + 1)..Len(events) :
        ExtractId(events[j].title) = ExtractId(events[k].title)

\* faulty variant: eventMap is never filled
inEventMap_never(events, k) == FALSE

\* eventMap[record_id] is set: an earlier event of this enumeration has the key
inEventMap(events, k) ==
    \E j \in 1..(k - 1) : ExtractId(events[j].title) = ExtractId(events[k].title)

\* the retried function starts (again): getCalendarById, getEvents
startAttempt(kind, n, cal, cal0) ==
    [kind |-> kind, attempt |-> n, events |-> getEvents(cal, Now - sweepWindow(kind), Now),
     pos |-> 0, last |-> NoVisit, status |-> "running", cal0 |-> cal0]

\* the retried function threw in a visit: retry calls it again, or rethrows
\* after RETRY_COUNT attempts
afterThrow(sw, visit, cal) ==
    IF sw.attempt >= RETRY_COUNT
    THEN [sw EXCEPT !.status = "threw", !.last = visit]
    ELSE [startAttempt(sw.kind, sw.attempt + 1, cal, sw.cal0) EXCEPT !.last = visit]

SweepStart(kind) ==
    /\ sweep.kind = "none"
    /\ sweep' = startAttempt(kind, 1, calendar, calendar)
    /\ UNCHANGED <<store, lock, triggers, pc, mode, locals, outcome, obs, batch0>>

deleteRemovedEntriesShort ==
    /\ SweepStart("short")
    /\ UNCHANGED calendar

deleteRemovedEntriesManual ==
    /\ SweepStart("manual")
    /\ UNCHANGED calendar

removeDuplicateEvents ==
    /\ SweepStart("dups")
    /\ UNCHANGED calendar

\* one visit of events.forEach in a deletion sweep
DeleteVisit ==
    /\ sweep.kind \in {"short", "manual"}
    /\ sweep.status = "running"
    /\ sweep.pos < Len(sweep.events)
    /\ \E script \in ResponseScripts, del \in {"ok", "throws"} :
         LET event == sweep.events[sweep.pos + 1]
             key == ExtractId(event.title)
             exists == checkIfTogglEntryExists(script)
             visit == [key |-> key, looked |-> key # <<>>,
                       code |-> IF key = <<>> THEN 0 ELSE exists.code,
                       deleteCalled |-> key # <<>> /\ exists.ret = "false"]
         IN  IF key = <<>> \/ exists.ret = "true"
             THEN /\ sweep' = [sweep EXCEPT !.pos = @ + 1, !.last = visit]
                  /\ UNCHANGED calendar
             ELSE IF exists.ret = "throw"
             THEN /\ sweep' = afterThrow(sweep, visit, calendar)
                  /\ UNCHANGED calendar
             ELSE IF del = "ok"
             THEN /\ calendar' = deleteEvent(calendar, event)
                  /\ sweep' = [sweep EXCEPT !.pos = @ + 1, !.last = visit]
             ELSE /\ sweep' = afterThrow(sweep, visit, calendar)
                  /\ UNCHANGED calendar
    /\ UNCHANGED <<store, lock, triggers, pc, mode, locals, outcome, obs, batch0>>

\* one visit of events.forEach in removeDuplicateEvents
DuplicateVisit ==
    /\ sweep.kind = "dups"
    /\ sweep.status = "running"
    /\ sweep.pos < Len(sweep.events)
    /\ \E del \in {"ok", "throws"} :
         LET event == sweep.events[sweep.pos + 1]
             key == ExtractId(event.title)
             dup == key # <<>> /\ inEventMap(sweep.events, sweep.pos + 1)
             visit == [key |-> key, looked |-> FALSE, code |-> 0, deleteCalled |-> dup]
         IN  IF ~dup
             THEN /\ sweep' = [sweep EXCEPT !.pos = @ + 1, !.last = visit]
                  /\ UNCHANGED calendar
             ELSE IF del = "ok"
             THEN /\ calendar' = deleteEvent(calendar, event)
                  /\ sweep' = [sweep EXCEPT !.pos = @ + 1, !.last = visit]
             ELSE /\ sweep' = afterThrow(sweep, visit, calendar)
                  /\ UNCHANGED calendar
    /\ UNCHANGED <<store, lock, triggers, pc, mode, locals, outcome, obs, batch0>>

\* forEach is through: the retried function returns
SweepReturn ==
    /\ sweep.status = "running"
    /\ sweep.pos >= Len(sweep.events)
    /\ sweep' = [sweep EXCEPT !.status = "returned"]
    /\ UNCHANGED <<store, calendar, lock, triggers, pc, mode, locals, outcome, obs, batch0>>

\* the call is over
SweepOver ==
    /\ sweep.status \in {"returned", "threw"}
    /\ sweep' = NoSweep
    /\ UNCHANGED <<store, calendar, lock, triggers, pc, mode, locals, outcome, obs, batch0>>

\* The calendars the sweepers are run on: up to MaxEvents events, with or
\* without a trailing ID token, an hour long, two hours ago, twenty days ago
\* or (as testCreateDuplicateEvents creates them) an hour ahead, each with
\* its own time of last update, in any enumeration order.
SweepTitles == {Title("A", "", <<7>>), Title("B", "", <<8>>), Title("own", "", <<>>)}
SweepStarts == {Now - 2 * HOUR, TOlder, Now + HOUR}
\* the orders in which n events were last updated
UpdateOrders(n) == {f \in [1..n -> 1..n] : \A i, j \in 1..n : i # j => f[i] # f[j]}

SweepCalendars ==
    UNION {{[i \in 1..n |-> Event(t[i], b[i], b[i] + HOUR, f[i])] :
               t \in [1..n -> SweepTitles], b \in [1..n -> SweepStarts],
               f \in UpdateOrders(n)} :
           n \in 0..MaxEvents}

InitSweep ==
    /\ cache = AbsentEntry
    /\ props = AbsentEntry
    /\ progress = <<>>
    /\ calendar \in SweepCalendars
    /\ lock = <<>>
    /\ triggers = 0
    /\ pc = [p \in Procs |-> "idle"]
    /\ mode = [p \in Procs |-> "watch"]
    /\ lastModify = [p \in Procs |-> 0 - 1]
    /\ timeEntries = [p \in Procs |-> <<>>]
    /\ idx = [p \in Procs |-> 0]
    /\ outcome = [p \in Procs |-> "none"]
    /\ obs = NoObs
    /\ batch0 = NoBatch
    /\ sweep = NoSweep

NextSweep ==
    \/ deleteRemovedEntriesShort
    \/ deleteRemovedEntriesManual
    \/ removeDuplicateEvents
    \/ DeleteVisit
    \/ DuplicateVisit
    \/ SweepReturn
    \/ SweepOver

SpecSweep == InitSweep /\ [][NextSweep]_vars

\* the keys of the events of cal that a sweeper of this kind scans
KeysIn(cal, kind) ==
    {ExtractId(e.title) :
        e \in {cal[k] : k \in {j \in 1..Len(cal) :
                                  InRange(cal[j], Now - sweepWindow(kind), Now)}}} \ {<<>>}

\* the events of cal with the key that a sweeper of this kind scans
Carriers(cal, kind, key) ==
    {cal[k] : k \in {j \in 1..Len(cal) :
                        /\ InRange(cal[j], Now - sweepWindow(kind), Now)
                        /\ ExtractId(cal[j].title) = key}}

\* a step of a deletion sweep that visits an event
IsDeleteVisit ==
    /\ sweep.kind \in {"short", "manual"}
    /\ sweep.status = "running"
    /\ sweep.pos < Len(sweep.events)
    /\ sweep' # sweep

\* C6: a visit of a deletion sweep calls deleteEvent if and only if the
\* by-id lookup of the event's identifier answered 404; the calendar
\* changes only by losing that one event, and only after a 404; this holds
\* in every attempt of the sweep's retry.
C6_DeleteIffLookup404 ==
    [][IsDeleteVisit =>
          LET event == sweep.events[sweep.pos + 1]
              visit == sweep'.last
          IN  /\ visit.deleteCalled <=> (visit.looked /\ visit.code = 404)
              /\ calendar' # calendar =>
                    /\ visit.deleteCalled
                    /\ calendar' = deleteEvent(calendar, event)
              /\ (visit.looked /\ visit.code # 404) => calendar' = calendar]_vars

\* C6 witness: in a later attempt of a sweep, after the lookup answered 500
\* in every retry of an earlier attempt, an event's lookup answers 404 and
\* the event is gone, while the sweep has left events of other keys alone.
C6_Witness ==
    /\ sweep.kind \in {"short", "manual"}
    /\ sweep.attempt > 1
    /\ sweep.last.code = 404
    /\ sweep.last.deleteCalled
    /\ Carriers(calendar, sweep.kind, sweep.last.key) = {}
    /\ KeysIn(calendar, sweep.kind) # {}

\* C7: when removeDuplicateEvents has returned normally, every key that the
\* scanned window held at the call is carried by exactly one event of the
\* window.
C7_OneEventPerKey ==
    (sweep.kind = "dups" /\ sweep.status = "returned") =>
        \A key \in KeysIn(sweep.cal0, "dups") :
            Cardinality(Carriers(calendar, "dups", key)) = 1

\* C7 witness: removeDuplicateEvents has returned after deleting the two
\* duplicates of a key.
C7_Witness ==
    /\ sweep.kind = "dups"
    /\ sweep.status = "returned"
    /\ \E key \in KeysIn(sweep.cal0, "dups") :
          Cardinality(Carriers(sweep.cal0, "dups", key)) = 3

\* C8: of several events that share a key, removeDuplicateEvents leaves the
\* one that was updated last.
C8_LatestSurvives ==
    (sweep.kind = "dups" /\ sweep.status = "returned") =>
        \A key \in KeysIn(sweep.cal0, "dups") :
            \A e \in Carriers(calendar, "dups", key) :
                \A d \in Carriers(sweep.cal0, "dups", key) : e.updated >= d.updated

\* the positions of cal that removeDuplicateEvents is to leave: events outside
\* the scanned window, events without a trailing identifier, and for every
\* key the event that getEvents enumerates first
FirstEnumerated(cal) ==
    {k \in 1..Len(cal) :
        \/ ~InRange(cal[k], Now - sweepWindow("dups"), Now)
        \/ ExtractId(cal[k].title) = <<>>
        \/ ~\E j \in 1..(k - 1) :
               /\ InRange(cal[j], Now - sweepWindow("dups"), Now)
               /\ ExtractId(cal[j].title) = ExtractId(cal[k].title)}

\* the events of cal at the positions K, in the order of cal
Restrict(cal, K) ==
    LET F[i \in 0..Len(cal)] ==
            IF i = 0 THEN <<>>
            ELSE IF i \in K THEN Append(F[i - 1], cal[i]) ELSE F[i - 1]
    IN  F[Len(cal)]

WithoutIdToken(cal) == SelectSeq(cal, LAMBDA e : e.title.tok = <<>>)

\* C39: no step of a sweeper deletes or changes an event whose title does not
\* end in ID:<digits>: those events are the same before and after.
C39_SweepersLeaveForeignEvents ==
    [][WithoutIdToken(calendar') = WithoutIdToken(calendar)]_vars

\* a sweeper has returned after deleting an event, and an event without an
\* identifier that lay in its window is still there
C39_Witness ==
    /\ sweep.status = "returned"
    /\ Len(calendar) < Len(sweep.cal0)
    /\ \E k \in 1..Len(calendar) :
          /\ calendar[k].title.tok = <<>>
          /\ InRange(calendar[k], Now - sweepWindow(sweep.kind), Now)
    /\ WithoutIdToken(calendar) = WithoutIdToken(sweep.cal0)

(***************************************************************************)
(* The reconciler run again and again on one record: each pass is the body *)
(* of the per-record try block (matcher, then writer when the matcher      *)
(* returned false).  Between passes the user may edit an event.            *)
(***************************************************************************)
MaxPasses == 3

MatchRecords ==
    {Record(id, Stamp(TRecent, f), Stamp(TRecent + HOUR, f), d, pid) :
        id \in {<<1>>, <<>>}, f \in TextForms, d \in {"A", ""}, pid \in {<<>>, <<5>>}}

\* calendars before the first pass: empty, an event the user wrote, an event
\* of another record whose id starts with the digits of this one's
MatchCalendars ==
    {<<>>,
     <<Event(Title("own", "", <<>>), TRecent, TRecent + HOUR, 0)>>,
     <<Event(Title("Z", "", <<12>>), TRecent, TRecent + HOUR, 0)>>}

InitMatch ==
    /\ cache = AbsentEntry
    /\ props = AbsentEntry
    /\ progress = <<>>
    /\ calendar \in MatchCalendars
    /\ lock = <<>>
    /\ triggers = 0
    /\ pc = [p \in Procs |-> "idle"]
    /\ mode = [p \in Procs |-> "watch"]
    /\ lastModify = [p \in Procs |-> 0 - 1]
    /\ \E rec \in MatchRecords : timeEntries = [p \in Procs |-> <<rec>>]
    /\ idx = [p \in Procs |-> 0]
    /\ outcome = [p \in Procs |-> "none"]
    /\ obs = NoObs
    /\ batch0 = NoBatch
    /\ sweep = NoSweep

\* one pass over the record
MatchPass ==
    /\ idx[1] < MaxPasses
    /\ \E env \in EnvsFor(calendar, timeEntries[1][1]) :
         LET rec == timeEntries[1][1]
             r == processRecord(calendar, rec, env)
         IN  /\ Len(r.cal) <= MaxEvents
             /\ calendar' = r.cal
             /\ obs' = [kind |-> "pass",
                        upToDate |-> rec.id # <<>> /\ UpToDate(calendar, rec),
                        ret |-> r.ret, writeCalls |-> r.writeCalls,
                        created |-> r.created, faulty |-> r.faulty,
                        caught |-> r.caught, escaped |-> r.escaped, env |-> env]
    /\ idx' = [p \in Procs |-> idx[1] + 1]
    /\ UNCHANGED <<store, lock, triggers, pc, mode, lastModify, timeEntries,
                   outcome, batch0, sweep>>

\* the user retitles an event or moves it by an hour
EventEdited ==
    /\ \E k \in 1..Len(calendar) :
         \/ /\ calendar[k].title.text # "edited"
            /\ calendar' = [calendar EXCEPT ![k].title.text = "edited"]
         \/ /\ calendar[k].start = TRecent
            /\ calendar' = [calendar EXCEPT ![k].start = @ + HOUR, ![k].end = @ + HOUR]
    /\ UNCHANGED <<store, lock, triggers, pc, mode, locals, outcome, obs,
                   batch0, sweep>>

\* the description of the record is changed in the account
RecordRenamed ==
    /\ timeEntries[1][1].description # "B"
    /\ timeEntries' = [p \in Procs |-> <<[timeEntries[1][1] EXCEPT !.description = "B"]>>]
    /\ UNCHANGED <<store, calendar, lock, triggers, pc, mode, lastModify, idx,
                   outcome, obs, batch0, sweep>>

NextMatch == MatchPass \/ EventEdited \/ RecordRenamed

SpecMatch == InitMatch /\ [][NextMatch]_vars

\* C5: a pass over a record with an id whose event already has the canonical
\* title and the record's start and stop, every call going through, returns
\* true from the matcher, issues no setTitle/setTime and creates no event.
C5_RerunIsIdempotent ==
    (obs.kind = "pass" /\ obs.upToDate /\ ~obs.faulty) =>
        (obs.ret = "true" /\ ~obs.writeCalls /\ ~obs.created)

\* a step that is one pass over the record
IsMatchPass == idx'[1] = idx[1] + 1

\* the title text of a record: (record.description || '名称なし')
labelOf(rec) == IF rec.description = "" THEN "NoName" ELSE rec.description

\* the key the specification gives a record without an id:
\* "NO_ID:" + isoStart + "_" + (description ?? defaultLabel)
compositeKey(rec) == <<"NO_ID", toISOString(rec.start.inst), labelOf(rec)>>

\* C13: for a record without an id, the event a pass creates carries the
\* composite key NO_ID:<isoStart>_<description> after "ID:", and a pass over
\* the identical record whose event exists matches it: no event is created
\* and nothing is changed.
C13_CompositeKeyForRecordWithoutId ==
    [][(IsMatchPass /\ timeEntries[1][1].id = <<>> /\ ~obs'.faulty) =>
          /\ obs'.created =>
                calendar'[Len(calendar')].title.tok = compositeKey(timeEntries[1][1])
          /\ UpToDate(calendar, timeEntries[1][1]) =>
                (calendar' = calendar /\ ~obs'.created /\ obs'.ret = "true")]_vars

\* C14: every event a pass creates has the title <label> [" : " <project>]
\* " ID:" <key>, where label is the description or the default label, the
\* project part is the looked-up project name when that is non-empty, and key
\* is the record id or, without an id, the composite key.
C14_CreatedTitleEndsInKey ==
    [][(IsMatchPass /\ obs'.created) =>
          LET rec == timeEntries[1][1]
              title == calendar'[Len(calendar')].title
          IN  /\ Len(calendar') = Len(calendar) + 1
              /\ title.text = labelOf(rec)
              /\ title.proj = projectName(rec, obs'.env.proj)
              /\ title.tok = IF rec.id # <<>> THEN rec.id ELSE compositeKey(rec)]_vars

\* C15: when the project lookup of a pass fails (no 200 answer, or the fetch
\* fails in every attempt) and every other call goes through, the record is
\* still matched or created in that pass and no error is raised.
C15_ProjectLookupFailureDegrades ==
    (obs.kind = "pass" /\ obs.env.proj # "ok"
        /\ obs.env.upd = "ok" /\ obs.env.create = "ok") =>
        ((obs.ret = "true" \/ obs.created) /\ ~obs.caught /\ ~obs.escaped)

\* C26: a pass matches only an event whose title ends in ID:<id> for the
\* record's own id: when the matcher returns true or calls setTitle/setTime
\* such an event was there, and every event whose trailing identifier is
\* another one (ID:12 for record 1) is left exactly as it was.
C26_ExactTrailingIdOnly ==
    [][IsMatchPass =>
          LET rec == timeEntries[1][1]
          IN  /\ (obs'.ret = "true" \/ obs'.writeCalls) =>
                    /\ rec.id # <<>>
                    /\ \E j \in 1..Len(calendar) : ExtractId(calendar[j].title) = rec.id
              /\ \A j \in 1..Len(calendar) :
                    ExtractId(calendar[j].title) # rec.id =>
                        (j <= Len(calendar') /\ calendar'[j] = calendar[j])]_vars

\* record 1 was passed over a calendar holding an event that ends in ID:12:
\* that event is as it was and the record got an event of its own
C26_Witness ==
    /\ obs.kind = "pass"
    /\ timeEntries[1][1].id = <<1>>
    /\ Len(calendar) = 2
    /\ calendar[1] = Event(Title("Z", "", <<12>>), TRecent, TRecent + HOUR, 0)
    /\ ExtractId(calendar[2].title) = <<1>>

\* C27: when the setTitle/setTime block of a matched event fails in every
\* retry, the matcher returns false and the pass creates a new event for the
\* record, which then carries the same trailing identifier as the matched
\* one.
C27_FailedUpdateFallsBackToCreate ==
    [][(IsMatchPass /\ obs'.writeCalls /\ obs'.env.upd # "ok"
          /\ obs'.env.create = "ok") =>
          LET rec == timeEntries[1][1]
          IN  /\ obs'.ret = "false"
              /\ obs'.created
              /\ Len(calendar') = Len(calendar) + 1
              /\ ExtractId(calendar'[Len(calendar')].title) = rec.id
              /\ MatchingEvent(calendar', rec.id) \in 1..Len(calendar)]_vars

\* C31: when a pass has called the matcher and an event matched, that event
\* has afterwards either the title and start/end it had, or the canonical
\* title and the record's start/stop: never the new title with the old times.
C31_TitleAndTimeTogether ==
    [][(IsMatchPass /\ timeEntries[1][1].id # <<>>
          /\ MatchingEvent(calendar, timeEntries[1][1].id) # 0) =>
          LET rec == timeEntries[1][1]
              k == MatchingEvent(calendar, rec.id)
              canonical == BuildTitle(rec.description,
                                      projectName(rec, obs'.env.proj), rec.id)
          IN  \/ calendar'[k] = calendar[k]
              \/ /\ calendar'[k].title = canonical
                 /\ calendar'[k].start = rec.start.inst
                 /\ calendar'[k].end = rec.stop.inst]_vars

\* C32: in a pass that matches an event, the matcher finds that the time
\* needs an update exactly when the event's start or end is another instant
\* than the record's start or stop, whatever the textual form of the
\* record's timestamps; with equal instants and an equal title it issues no
\* setTitle/setTime.
C32_TimeComparedAsInstants ==
    [][(IsMatchPass /\ timeEntries[1][1].id # <<>>
          /\ MatchingEvent(calendar, timeEntries[1][1].id) # 0
          /\ ~projectThrows(timeEntries[1][1], obs'.env.proj)) =>
          LET rec == timeEntries[1][1]
              ev == calendar[MatchingEvent(calendar, rec.id)]
              sameInstants == ev.start = rec.start.inst /\ ev.end = rec.stop.inst
              canonical == BuildTitle(rec.description,
                                      projectName(rec, obs'.env.proj), rec.id)
          IN  /\ eventTimeNeedsUpdate(ev, rec) <=> ~sameInstants
              /\ (sameInstants /\ ev.title = canonical) => ~obs'.writeCalls]_vars

\* the event of the record differs from the record in its title text only
OnlyDescriptionChanged(cal, rec) ==
    /\ rec.id # <<>>
    /\ MatchingEvent(cal, rec.id) # 0
    /\ LET ev == cal[MatchingEvent(cal, rec.id)]
       IN  /\ ev.title.text # labelOf(rec)
           /\ ev.title.proj = projectName(rec, "ok")
           /\ ev.start = rec.start.inst
           /\ ev.end = rec.stop.inst

\* C20: a pass over a synced record of which only the description changed,
\* every call going through, leaves the event with the new canonical title
\* and its start and end as they were, leaves every other event alone,
\* creates no event and returns true from the matcher.
C20_DescriptionChangeUpdatesTitleOnly ==
    [][(IsMatchPass /\ OnlyDescriptionChanged(calendar, timeEntries[1][1])
          /\ obs'.env = CleanEnv) =>
          LET rec == timeEntries[1][1]
              k == MatchingEvent(calendar, rec.id)
          IN  /\ Len(calendar') = Len(calendar)
              /\ calendar'[k].title = Title(labelOf(rec), projectName(rec, "ok"), rec.id)
              /\ calendar'[k].start = calendar[k].start
              /\ calendar'[k].end = calendar[k].end
              /\ \A j \in 1..Len(calendar) : j # k => calendar'[j] = calendar[j]
              /\ obs'.ret = "true"
              /\ ~obs'.created]_vars

\* C20 witness: the record, synced before, was renamed in the account and a
\* later pass has retitled its event; the record's timestamps are in the
\* form toISOString writes, so the title was the only difference.
C20_Witness ==
    /\ obs.kind = "pass"
    /\ idx[1] >= 2
    /\ obs.ret = "true" /\ obs.writeCalls /\ ~obs.created /\ obs.env = CleanEnv
    /\ timeEntries[1][1].description = "B"
    /\ timeEntries[1][1].start.form = "msZ"
    /\ timeEntries[1][1].pid # <<>>
    /\ \E k \in 1..Len(calendar) :
          /\ calendar[k].title = Title("B", "Proj", timeEntries[1][1].id)
          /\ calendar[k].start = timeEntries[1][1].start.inst

(***************************************************************************)
(* retry(fn, retries, delay), lines 126-139, one invocation of fn per      *)
(* step.  fn is given by the outcomes of its successive invocations: each  *)
(* returns a value or throws an error, told apart by v.  obs keeps the     *)
(* call: the loop index i, the invocations made, how the call ended        *)
(* ("returned", "threw") and the value returned or the error thrown;       *)
(* <<>> is undefined.                                                      *)
(***************************************************************************)
FnOutcomes == [ok : BOOLEAN, v : {1, 2}]
FnScripts == [1..RETRY_COUNT -> FnOutcomes]

\* faulty variant: the last error is swallowed like the others
retryGivesUp_never(i, retries) == FALSE

\* the else branch of (i < retries - 1): throw e
retryGivesUp(i, retries) == ~(i < retries - 1)

InitRetry ==
    /\ cache = AbsentEntry
    /\ props = AbsentEntry
    /\ progress = <<>>
    /\ calendar = <<>>
    /\ lock = <<>>
    /\ triggers = 0
    /\ pc = [p \in Procs |-> "idle"]
    /\ mode = [p \in Procs |-> "watch"]
    /\ lastModify = [p \in Procs |-> 0 - 1]
    /\ timeEntries = [p \in Procs |-> <<>>]
    /\ idx = [p \in Procs |-> 0]
    /\ outcome = [p \in Procs |-> "none"]
    /\ \E fn \in FnScripts, retries \in 0..RETRY_COUNT :
          obs = [kind |-> "retry", fn |-> fn, retries |-> retries, i |-> 0,
                 calls |-> 0, status |-> "running", value |-> <<>>]
    /\ batch0 = NoBatch
    /\ sweep = NoSweep

\* one iteration of the for loop: try { return fn(); } catch (e) { ... }
RetryAttempt ==
    /\ obs.kind = "retry"
    /\ obs.status = "running"
    /\ obs.i < obs.retries
    /\ LET res == obs.fn[obs.calls + 1]
       IN  obs' = IF res.ok
                  THEN [obs EXCEPT !.calls = @ + 1, !.status = "returned",
                                   !.value = <<"value", res.v>>]
                  ELSE IF retryGivesUp(obs.i, obs.retries)
                  THEN [obs EXCEPT !.calls = @ + 1, !.status = "threw",
                                   !.value = <<"error", res.v>>]
                  ELSE [obs EXCEPT !.calls = @ + 1, !.i = @ + 1]
    /\ UNCHANGED <<store, calendar, lock, triggers, pc, mode, locals,
                   outcome, batch0, sweep>>

\* the loop condition fails: the function ends without a return statement
RetryFallsThrough ==
    /\ obs.kind = "retry"
    /\ obs.status = "running"
    /\ ~(obs.i < obs.retries)
    /\ obs' = [obs EXCEPT !.status = "returned", !.value = <<>>]
    /\ UNCHANGED <<store, calendar, lock, triggers, pc, mode, locals,
                   outcome, batch0, sweep>>

NextRetry == RetryAttempt \/ RetryFallsThrough

SpecRetry == InitRetry /\ [][NextRetry]_vars

\* C19: retry invokes fn at most retries times; when it has returned after
\* invoking fn, the last invocation was the first to succeed and its value
\* is the one returned; when all retries invocations failed (retries >= 1)
\* it has thrown the error of the last of them, and it throws in no other
\* case.
C19_RetrySemantics ==
    /\ obs.calls <= obs.retries
    /\ (obs.status = "returned" /\ obs.calls > 0) =>
          /\ obs.fn[obs.calls].ok
          /\ \A k \in 1..(obs.calls - 1) : ~obs.fn[k].ok
          /\ obs.value = <<"value", obs.fn[obs.calls].v>>
    /\ (obs.status = "threw") =>
          /\ obs.calls = obs.retries
          /\ \A k \in 1..obs.retries : ~obs.fn[k].ok
          /\ obs.value = <<"error", obs.fn[obs.retries].v>>
    /\ (obs.status = "running") =>
          \A k \in 1..obs.calls : ~obs.fn[k].ok
    /\ (obs.status = "returned" /\ obs.calls = 0) => obs.retries = 0

\* RETRY_COUNT invocations failed and the error of the last one, which
\* differs from that of the first, was thrown
C19_Witness ==
    /\ obs.status = "threw"
    /\ obs.retries = RETRY_COUNT
    /\ obs.calls = RETRY_COUNT
    /\ obs.fn[1].v # obs.fn[RETRY_COUNT].v
    /\ obs.value = <<"error", obs.fn[RETRY_COUNT].v>>

(***************************************************************************)
(* The checkpoint store on its own: getLastModifyDatetime (lines 74-109)   *)
(* and putLastModifyDatetime (lines 114-121) applied to the two tiers,     *)
(* which start with any entry, well-formed or not.  obs keeps the last     *)
(* read: the entries it met and the value it returned.                     *)
(***************************************************************************)
CheckpointStamps == {0, TOlder, TRecent}
MalformedEntries == {CorruptEntry, NoTimestampEntry}
Entries == {AbsentEntry} \cup MalformedEntries \cup {Payload(t) : t \in CheckpointStamps}

InitCheckpoint ==
    /\ cache \in Entries
    /\ props \in Entries
    /\ progress = <<>>
    /\ calendar = <<>>
    /\ lock = <<>>
    /\ triggers = 0
    /\ pc = [p \in Procs |-> "idle"]
    /\ mode = [p \in Procs |-> "watch"]
    /\ lastModify = [p \in Procs |-> 0 - 1]
    /\ timeEntries = [p \in Procs |-> <<>>]
    /\ idx = [p \in Procs |-> 0]
    /\ outcome = [p \in Procs |-> "none"]
    /\ obs = NoObs
    /\ batch0 = NoBatch
    /\ sweep = NoSweep

\* a call of getLastModifyDatetime()
ReadCheckpoint ==
    /\ LET g == getLastModifyDatetime(cache, props)
       IN  /\ cache' = g.cache
           /\ obs' = [kind |-> "read", cache0 |-> cache, props0 |-> props,
                      ret |-> g.ret]
    /\ UNCHANGED <<props, progress, calendar, lock, triggers, pc, mode, locals,
                   outcome, batch0, sweep>>

\* a call of putLastModifyDatetime(timestamp)
WriteCheckpoint ==
    /\ \E timestamp \in CheckpointStamps :
          /\ cache' = putLastModifyDatetime(timestamp)
          /\ props' = putLastModifyDatetime(timestamp)
    /\ UNCHANGED <<progress, calendar, lock, triggers, pc, mode, locals,
                   outcome, obs, batch0, sweep>>

NextCheckpoint == ReadCheckpoint \/ WriteCheckpoint \/ CacheExpire \/ clearScriptCache

SpecCheckpoint == InitCheckpoint /\ [][NextCheckpoint]_vars

\* a step that is a call of getLastModifyDatetime()
IsRead == obs' # obs /\ obs'.kind = "read"

\* C23: a read returns the cache tier's watermark when the cache holds a valid
\* payload; when it does not and the durable tier holds one, it returns the
\* durable tier's watermark and the cache holds the durable payload
\* afterwards; when neither tier holds a valid payload it returns -1.
C23_ReadFallsBackAndRepopulates ==
    [][IsRead =>
          /\ ValidPayload(cache) => (obs'.ret = cache.ts /\ cache' = cache)
          /\ (~ValidPayload(cache) /\ ValidPayload(props)) =>
                (obs'.ret = props.ts /\ cache' = props)
          /\ (~ValidPayload(cache) /\ ~ValidPayload(props)) => obs'.ret = 0 - 1
          /\ props' = props]_vars

\* a read met an empty cache, returned the durable watermark and left the
\* durable payload in the cache
C23_Witness ==
    /\ obs.kind = "read"
    /\ obs.cache0 = AbsentEntry
    /\ ValidPayload(obs.props0)
    /\ obs.ret = obs.props0.ts
    /\ cache = obs.props0
    /\ props = obs.props0

\* C24: a read that meets a malformed entry in a tier returns what it would
\* return were that entry absent, and the malformed entry is gone from the
\* tier afterwards.
C24_MalformedEntryEvicted ==
    [][IsRead =>
          /\ cache \in MalformedEntries =>
                /\ obs'.ret = getLastModifyDatetime(AbsentEntry, props).ret
                /\ cache' \notin MalformedEntries
          /\ (~ValidPayload(cache) /\ props \in MalformedEntries) =>
                /\ obs'.ret = getLastModifyDatetime(cache, AbsentEntry).ret
                /\ props' \notin MalformedEntries]_vars

====
